---- MODULE Spec2Model ----
(***************************************************************************)
(* Model of pkg/ovssubnet/subnets.go: the master role (subnetStartMaster,  *)
(* serveExistingNodes, addNode, deleteNode, watchNodes) and the node role  *)
(* (subnetStartNode, initSelfSubnet, watchSubnets) of the OVS subnet       *)
(* controller.  One process runs one role; the role is fixed in Init.      *)
(*                                                                         *)
(* Two tasks exist per process: "main" (the caller of subnetStartMaster /  *)
(* subnetStartNode) and "watch" (the goroutine running watchNodes /        *)
(* watchSubnets).  Every registry call and every allocator access is one   *)
(* step, so the interleavings of the two tasks are the ones the Go         *)
(* scheduler can produce.  The allocator has no lock: GetNetwork is a scan *)
(* of the allocation map followed by a write, and the two tasks' accesses  *)
(* interleave between the two.                                             *)
(*                                                                         *)
(* The registry, its watches, the allocator and the flow controller are    *)
(* outside subnets.go; they are modelled by their contracts.  Every        *)
(* registry call may fail.                                                 *)
(***************************************************************************)
EXTENDS Integers, Sequences, FiniteSets, TLC

\* ------------------------------------------------------------ bounds
\* Number of host subnets the cluster network is divided into.
PoolSize == 2
\* Number of addresses of one host subnet.
HostSize == 4
\* Number of events the registry watch delivers in one run.
MaxEvents == 2

\* ------------------------------------------------------------ values
Nodes == {"n1", "n2"}
ValidIPs == {"1.1.1.1", "2.2.2.2"}
InvalidIPs == {"", "127.0.0.1"}
IPs == ValidIPs \cup InvalidIPs
Tasks == {"main", "watch"}
None == [none |-> TRUE]

\* A network (net.IPNet): first address and number of addresses.
Network(i) == [ip |-> i * HostSize, size |-> HostSize]
\* The networks of the cluster network, in the allocator's order.
PoolNets == {Network(i) : i \in 0..(PoolSize - 1)}
\* IPNet.String(): the text stored in Subnet.SubnetCIDR.
CIDRString(n) == <<n.ip, n.size>>
\* net.ParseCIDR: the network the text names (the address masked to the
\* network's first address), or None when the text is no CIDR.
ParseCIDR(s) ==
  IF /\ Len(s) = 2
     /\ s[1] \in Nat
     /\ s[2] \in Nat \ {0}
  THEN [ip |-> s[1] - (s[1] % s[2]), size |-> s[2]]
  ELSE None
Addrs(n) == n.ip .. (n.ip + n.size - 1)
\* Two CIDR texts overlap when their address ranges intersect.
Overlap(s, t) ==
  /\ ParseCIDR(s) # None
  /\ ParseCIDR(t) # None
  /\ Addrs(ParseCIDR(s)) \cap Addrs(ParseCIDR(t)) # {}

\* api.Subnet as stored under a node name.
Rec(n, ip, cidr) == [name |-> n, ip |-> ip, cidr |-> cidr]
\* api.NodeEvent: the events the node watch delivers.
EventIPs == ValidIPs \cup {"127.0.0.1"}
NodeEvents ==
  [type : {"Added"}, name : Nodes, ip : EventIPs] \cup
  [type : {"Deleted"}, name : Nodes, ip : {""}]

VARIABLES
  role,       \* "master" or "node"
  reliable,   \* the registry serves every call of this run that it can serve
  subnets,    \* the registry's Subnet records
  allocMap,   \* the allocator's set of allocated CIDR texts
  pc,         \* position of each task
  result,     \* the snapshot returned by watchAndGetResource
  idx,        \* position of the sweep in the snapshot
  arg,        \* per task: the (name, ip) addNode was called with
  sn,         \* per task: the network GetNetwork chose
  ev,         \* the event the watch loop is handling
  sub,        \* the watch loop's local sub
  chan,       \* the event offered on the watch's event channel
  emitted,    \* events delivered so far
  sig,        \* a shutdown signal is waiting on oc.sig
  stopSent,   \* the stop request reached the registry watch
  sigTaken,   \* history: the watch loop took the shutdown signal
  afterSig,   \* history: the watch loop acted after taking the signal
  releases,   \* history: ReleaseNetwork calls for the event being handled
  released,   \* history: the last ReleaseNetwork call of deleteNode: the
              \* node, its CIDR, and whether the pool was exhausted before
              \* it; forgotten when a record of that node is written
  stranded,   \* history: the CIDR of the record the last failed CreateSubnet
              \* of an IP change was to write
  werr,       \* history: how the watch loop's last handler ended
  evDup,      \* history: the Added event being handled found its node's
              \* record, with the event's IP, in the registry when it was taken
  subrange,   \* subnetStartMaster's local subrange
  i,          \* initSelfSubnet's loop counter
  err,        \* initSelfSubnet's err (TRUE: the last lookup failed)
  lookups,    \* history: GetSubnet calls made by initSelfSubnet
  localSubnet,\* oc.localSubnet
  flowReady,  \* flowController.Setup has succeeded
  rules       \* the forwarding rules the flow controller holds

vars == <<role, reliable, subnets, allocMap, pc, result, idx, arg, sn, ev, sub, chan,
          emitted, sig, stopSent, sigTaken, afterSig, releases, released, stranded,
          werr,
          evDup,
          subrange, i, err, lookups, localSubnet, flowReady, rules>>

masterVars == <<subnets, allocMap, result, idx, arg, sn, ev, sub, releases,
                released, stranded,
                werr, evDup, subrange>>
nodeVars == <<i, err, lookups, localSubnet, flowReady, rules>>
watchVars == <<chan, emitted, sig, stopSent, sigTaken, afterSig>>
\* What is fixed for a run.
env == <<role, reliable>>

\* ------------------------------------------------------------ registry
\* The results of a registry call the registry can serve: it succeeds, or,
\* when the registry or the way to it is not reliable, it fails.
Outcomes == IF reliable THEN {TRUE} ELSE BOOLEAN

HasSubnet(n) == \E r \in subnets : r.name = n
SubnetOf(n) == CHOOSE r \in subnets : r.name = n

\* A SubnetCIDR text that is no CIDR.
BadCIDR == <<>>
\* Registries a master can find at startup: written by an earlier master
\* so one record per name and disjoint CIDRs; the fourth was written under
\* a larger cluster network and holds a CIDR outside the present one; the
\* last holds a record written by hand whose SubnetCIDR is no CIDR.
InitRegistries ==
  { {},
    {Rec("n1", "1.1.1.1", CIDRString(Network(0)))},
    {Rec("n1", "1.1.1.1", CIDRString(Network(0))),
     Rec("n2", "2.2.2.2", CIDRString(Network(1)))},
    {Rec("n1", "1.1.1.1", CIDRString(Network(PoolSize)))},
    {Rec("n2", "2.2.2.2", BadCIDR)} }

\* Node lists GetNodes can return.
Snapshots ==
  { <<>>,
    <<[name |-> "n1", ip |-> "1.1.1.1"]>>,
    <<[name |-> "n1", ip |-> "1.1.1.1"], [name |-> "n2", ip |-> "2.2.2.2"]>>,
    <<[name |-> "n1", ip |-> ""], [name |-> "n2", ip |-> "2.2.2.2"]>> }

\* ------------------------------------------------------------ allocator
\* The networks GetNetwork finds free when it scans allocMap.
FreeNets == {n \in PoolNets : CIDRString(n) \notin allocMap}
\* NewSubnetAllocator accepts the in-use list when every entry is a network
\* of the cluster network.
SeedOK(inUse) == \A s \in inUse : ParseCIDR(s) \in PoolNets
\* An in-use list with an entry that is no CIDR, its other entries being
\* networks of the cluster network: NewSubnetAllocator either refuses the
\* list or takes it.
SeedUnparsed(inUse) ==
  /\ \E s \in inUse : ParseCIDR(s) = None
  /\ \A s \in inUse : ParseCIDR(s) # None => ParseCIDR(s) \in PoolNets

\* ReleaseNetwork(ipnet): the allocation map without the network.
ReleaseNetwork(n) == allocMap \ {CIDRString(n)}

\* ------------------------------------------------------------ helpers
\* The watch loop acts: recorded when it has already taken the signal.
Acts(t) == afterSig' = (afterSig \/ (t = "watch" /\ sigTaken))
\* A call made by task t returns to its caller: serveExistingNodes returns
\* an error or goes on with the next node; watchNodes ignores the result
\* and goes back to its select.
Return(t, failed) ==
  /\ arg' = [arg EXCEPT ![t] = None]
  /\ sn' = [sn EXCEPT ![t] = None]
  /\ IF t = "main"
     THEN /\ pc' = [pc EXCEPT !["main"] = IF failed THEN "failed" ELSE "sweep"]
          /\ idx' = IF failed THEN idx ELSE idx + 1
          /\ UNCHANGED <<werr, evDup, ev, sub, werr, evDup>>
     ELSE /\ pc' = [pc EXCEPT !["watch"] = "select"]
          /\ ev' = None
          /\ sub' = None
          /\ idx' = idx
          /\ werr' = IF failed THEN "err" ELSE "ok"
          /\ evDup' = FALSE
\* The continue of line 193: the IP change is given up and the loop goes
\* back to its select.
Abort ==
  /\ pc' = [pc EXCEPT !["watch"] = "select"]
  /\ ev' = None
  /\ sub' = None
  /\ werr' = "abort"
  /\ evDup' = FALSE
  /\ UNCHANGED <<idx, arg, sn>>

\* ------------------------------------------------------------ master: startup
\* line 17: GetSubnets
MGetSubnets ==
  /\ role = "master"
  /\ pc["main"] = "getSubnets"
  /\ \/ /\ subrange' = {r.cidr : r \in subnets}
        /\ pc' = [pc EXCEPT !["main"] = "getCN"]
     \/ /\ ~reliable
        /\ subrange' = subrange
        /\ pc' = [pc EXCEPT !["main"] = "failed"]
  /\ UNCHANGED <<env, subnets, allocMap, result, idx, arg, sn, ev, sub,
                 releases, stranded, released, werr, evDup, nodeVars, watchVars>>

\* GetClusterNetworkCIDR whose failure leaves the node watch started.
MGetClusterNetworkCIDRWatching ==
  /\ role = "master"
  /\ pc["main"] = "getCN"
  /\ \E ok \in Outcomes :
       pc' = IF ok THEN [pc EXCEPT !["main"] = "getHSL"]
             ELSE [pc EXCEPT !["main"] = "failed", !["watch"] = "select"]
  /\ UNCHANGED <<env, masterVars, nodeVars, watchVars>>

\* line 26: GetClusterNetworkCIDR
MGetClusterNetworkCIDR ==
  /\ role = "master"
  /\ pc["main"] = "getCN"
  /\ \E ok \in Outcomes :
       pc' = [pc EXCEPT !["main"] = IF ok THEN "getHSL" ELSE "failed"]
  /\ UNCHANGED <<env, masterVars, nodeVars, watchVars>>

\* line 32: GetHostSubnetLength
MGetHostSubnetLength ==
  /\ role = "master"
  /\ pc["main"] = "getHSL"
  /\ \E ok \in Outcomes :
       pc' = [pc EXCEPT !["main"] = IF ok THEN "newAlloc" ELSE "failed"]
  /\ UNCHANGED <<env, masterVars, nodeVars, watchVars>>

\* line 38: NewSubnetAllocator(cn, hsl, subrange)
MNewSubnetAllocator ==
  /\ role = "master"
  /\ pc["main"] = "newAlloc"
  /\ \/ /\ SeedOK(subrange) \/ SeedUnparsed(subrange)
        /\ allocMap' = subrange
        /\ pc' = [pc EXCEPT !["main"] = "watchAndGet"]
     \/ /\ ~SeedOK(subrange)
        /\ allocMap' = allocMap
        /\ pc' = [pc EXCEPT !["main"] = "failed"]
  /\ UNCHANGED <<env, subnets, result, idx, arg, sn, ev, sub, releases, stranded, released, werr, evDup,
                 subrange, nodeVars, watchVars>>

\* line 46: watchAndGetResource("Node", watchNodes, getNodes): the snapshot
\* is fetched, the watchNodes goroutine runs and is subscribed when the call
\* returns; a failed GetNodes returns the error.
MWatchAndGetNodes ==
  /\ role = "master"
  /\ pc["main"] = "watchAndGet"
  /\ \/ \E snap \in Snapshots :
          /\ result' = snap
          /\ idx' = 1
          /\ pc' = [pc EXCEPT !["main"] = "sweep", !["watch"] = "select"]
     \/ /\ ~reliable
        /\ pc' = [pc EXCEPT !["main"] = "failed"]
        /\ UNCHANGED <<result, idx>>
  /\ UNCHANGED <<env, subnets, allocMap, arg, sn, ev, sub, releases, stranded, released, werr, evDup,
                 subrange, nodeVars, watchVars>>

\* ------------------------------------------------------------ master: sweep
\* lines 60-66: one turn of serveExistingNodes' loop, up to the call of
\* addNode.  GetSubnet returns the record, or an error (no record, or the
\* registry call failed).
ServeExistingNodes ==
  /\ role = "master"
  /\ pc["main"] = "sweep"
  /\ IF idx > Len(result)
     THEN /\ pc' = [pc EXCEPT !["main"] = "done"]
          /\ UNCHANGED <<idx, arg>>
     ELSE \/ /\ HasSubnet(result[idx].name)
             /\ idx' = idx + 1
             /\ UNCHANGED <<pc, arg>>
          \/ /\ reliable => ~HasSubnet(result[idx].name)
             /\ arg' = [arg EXCEPT !["main"] = result[idx]]
             /\ pc' = [pc EXCEPT !["main"] = "addGet"]
             /\ idx' = idx
  /\ UNCHANGED <<env, subnets, allocMap, result, sn, ev, sub, releases, stranded, released, werr, evDup,
                 subrange, nodeVars, watchVars>>

\* ------------------------------------------------------------ addNode
\* line 75, first half of GetNetwork: scan the allocation map for a free
\* network; none free is the exhausted error.
AddNodeScan(t) ==
  /\ role = "master"
  /\ pc[t] = "addGet"
  /\ IF FreeNets = {}
     THEN Return(t, TRUE)
     ELSE /\ \E n \in FreeNets : sn' = [sn EXCEPT ![t] = n]
          /\ pc' = [pc EXCEPT ![t] = "addMark"]
          /\ UNCHANGED <<werr, evDup, idx, ev, sub, arg>>
  /\ Acts(t)
  /\ UNCHANGED <<env, subnets, allocMap, result, releases, stranded, released, subrange,
                 nodeVars, chan, emitted, sig, stopSent, sigTaken>>

\* line 81: nodeIP == "" || nodeIP == "127.0.0.1"
InvalidIP(ip) == ip = "" \/ ip = "127.0.0.1"

\* line 75, second half of GetNetwork: mark the network allocated; then
\* lines 81-83: the check of the node's IP.
AddNodeMark(t) ==
  /\ role = "master"
  /\ pc[t] = "addMark"
  /\ allocMap' = allocMap \cup {CIDRString(sn[t])}
  /\ IF InvalidIP(arg[t].ip)
     THEN Return(t, TRUE)
     ELSE /\ pc' = [pc EXCEPT ![t] = "addCreate"]
          /\ UNCHANGED <<werr, evDup, idx, ev, sub, arg, sn>>
  /\ Acts(t)
  /\ UNCHANGED <<env, subnets, result, releases, stranded, released, subrange,
                 nodeVars, chan, emitted, sig, stopSent, sigTaken>>

\* The registry's CreateSubnet: stores the record under the name, or fails
\* (a record of that name exists, or the call failed).
CreateSubnet(name, rec, ok) ==
  IF ok /\ ~HasSubnet(name)
  THEN /\ subnets' = subnets \cup {rec}
       /\ released' = IF released # None /\ released.name = name
                      THEN None ELSE released
  ELSE /\ subnets' = subnets
       /\ released' = released
Created(name, ok) == ok /\ ~HasSubnet(name)

\* The registry's DeleteSubnet: removes the record of that name, or fails.
DeleteSubnet(name, ok) ==
  IF ok /\ HasSubnet(name)
  THEN subnets' = {r \in subnets : r.name # name}
  ELSE subnets' = subnets
Deleted(name, ok) == ok /\ HasSubnet(name)

\* lines 85-94: CreateSubnet(nodeName, {NodeIP, SubnetCIDR: sn.String()})
AddNodeCreate(t) ==
  /\ role = "master"
  /\ pc[t] = "addCreate"
  /\ \E ok \in Outcomes :
       /\ CreateSubnet(arg[t].name,
                       Rec(arg[t].name, arg[t].ip, CIDRString(sn[t])), ok)
       /\ Return(t, ~Created(arg[t].name, ok))
  /\ Acts(t)
  /\ UNCHANGED <<env, allocMap, result, releases, stranded, subrange,
                 nodeVars, chan, emitted, sig, stopSent, sigTaken>>

\* ------------------------------------------------------------ watch plumbing
\* The registry watch (WatchNodes / WatchSubnets) offers the next event on
\* the loop's event channel; it offers nothing once it was told to stop.
NodeEventArrives ==
  /\ role = "master"
  /\ pc["watch"] # "idle"
  /\ ~stopSent
  /\ chan = None
  /\ emitted < MaxEvents
  /\ \E e \in NodeEvents : chan' = e
  /\ emitted' = emitted + 1
  /\ UNCHANGED <<env, pc, masterVars, nodeVars, sig, stopSent, sigTaken,
                 afterSig>>

\* The process is told to shut down: a value is sent on oc.sig.
Signal ==
  /\ ~sig
  /\ ~sigTaken
  /\ pc["watch"] # "idle"
  /\ sig' = TRUE
  /\ UNCHANGED <<env, pc, masterVars, nodeVars, chan, emitted, stopSent,
                 sigTaken, afterSig>>

\* The select takes the shutdown signal and the loop goes on selecting (a
\* break that leaves the select, not the for).
WatchSignalKeepsOn ==
  /\ pc["watch"] = "select"
  /\ sig
  /\ sig' = FALSE
  /\ sigTaken' = TRUE
  /\ UNCHANGED <<env, pc, masterVars, nodeVars, chan, emitted, stopSent,
                 afterSig>>

\* lines 206-207 / 229: the select takes the shutdown signal.
WatchSignal ==
  /\ pc["watch"] = "select"
  /\ sig
  /\ sig' = FALSE
  /\ sigTaken' = TRUE
  /\ pc' = [pc EXCEPT !["watch"] = "stopping"]
  /\ UNCHANGED <<env, masterVars, nodeVars, chan, emitted, stopSent,
                 afterSig>>

\* lines 208-209 / 230-231: stop <- true; return.  The registry watch takes
\* the stop request.
WatchStop ==
  /\ pc["watch"] = "stopping"
  /\ stopSent' = TRUE
  /\ pc' = [pc EXCEPT !["watch"] = "returned"]
  /\ UNCHANGED <<env, masterVars, nodeVars, chan, emitted, sig, sigTaken,
                 afterSig>>

\* ------------------------------------------------------------ watchNodes
\* lines 179-180, 203: the select takes a node event.
WatchNodesReceive ==
  /\ role = "master"
  /\ pc["watch"] = "select"
  /\ chan # None
  /\ ev' = chan
  /\ chan' = None
  /\ releases' = 0
  /\ released' = released
  /\ stranded' = stranded
  /\ werr' = "none"
  /\ evDup' = (/\ chan.type = "Added"
               /\ \E r \in subnets : r.name = chan.name /\ r.ip = chan.ip)
  /\ pc' = [pc EXCEPT !["watch"] =
              IF chan.type = "Added" THEN "lookup" ELSE "delLookup"]
  /\ Acts("watch")
  /\ UNCHANGED <<env, subnets, allocMap, result, idx, arg, sn, sub,
                 subrange, nodeVars, emitted, sig, stopSent, sigTaken>>

\* lines 182-189: GetSubnet for an Added event, and the choice of the branch.
WatchNodesLookup ==
  /\ role = "master"
  /\ pc["watch"] = "lookup"
  /\ \/ /\ HasSubnet(ev.name)
        /\ IF SubnetOf(ev.name).ip # ev.ip
           THEN /\ sub' = SubnetOf(ev.name)
                /\ pc' = [pc EXCEPT !["watch"] = "updDelete"]
                /\ UNCHANGED <<werr, evDup, ev, idx, arg, sn>>
           ELSE Return("watch", FALSE)
     \/ /\ reliable => ~HasSubnet(ev.name)
        /\ arg' = [arg EXCEPT !["watch"] = [name |-> ev.name, ip |-> ev.ip]]
        /\ pc' = [pc EXCEPT !["watch"] = "addGet"]
        /\ UNCHANGED <<werr, evDup, ev, sub, idx, sn>>
  /\ Acts("watch")
  /\ UNCHANGED <<env, subnets, allocMap, result, releases, stranded, released, subrange,
                 nodeVars, chan, emitted, sig, stopSent, sigTaken>>

\* The record recreated without the new IP.
WithNodeIPStale(s, ip) == s
\* line 195: sub.NodeIP = ev.Node.IP
WithNodeIP(s, ip) == [s EXCEPT !.ip = ip]

\* An IP change that goes on to CreateSubnet after a failed DeleteSubnet
\* (the continue left out).
WatchNodesUpdateDeleteGoesOn ==
  /\ role = "master"
  /\ pc["watch"] = "updDelete"
  /\ \E ok \in Outcomes :
       /\ DeleteSubnet(ev.name, ok)
       /\ sub' = WithNodeIP(sub, ev.ip)
       /\ pc' = [pc EXCEPT !["watch"] = "updCreate"]
       /\ UNCHANGED <<werr, evDup, ev, idx, arg, sn>>
  /\ Acts("watch")
  /\ UNCHANGED <<env, allocMap, result, releases, stranded, released, subrange,
                 nodeVars, chan, emitted, sig, stopSent, sigTaken>>

\* An IP change whose failed DeleteSubnet ends the loop (a return in the
\* place of the continue).
WatchNodesUpdateDeleteReturns ==
  /\ role = "master"
  /\ pc["watch"] = "updDelete"
  /\ \E ok \in Outcomes :
       /\ DeleteSubnet(ev.name, ok)
       /\ IF Deleted(ev.name, ok)
          THEN /\ sub' = WithNodeIP(sub, ev.ip)
               /\ pc' = [pc EXCEPT !["watch"] = "updCreate"]
               /\ UNCHANGED <<werr, evDup, ev, idx, arg, sn>>
          ELSE /\ pc' = [pc EXCEPT !["watch"] = "returned"]
               /\ werr' = "err"
               /\ UNCHANGED <<evDup, ev, sub, idx, arg, sn>>
  /\ Acts("watch")
  /\ UNCHANGED <<env, allocMap, result, releases, stranded, released, subrange,
                 nodeVars, chan, emitted, sig, stopSent, sigTaken>>

\* lines 190-195: DeleteSubnet of the record with the old IP; on success
\* sub.NodeIP = ev.Node.IP.
WatchNodesUpdateDelete ==
  /\ role = "master"
  /\ pc["watch"] = "updDelete"
  /\ \E ok \in Outcomes :
       /\ DeleteSubnet(ev.name, ok)
       /\ IF Deleted(ev.name, ok)
          THEN /\ sub' = WithNodeIP(sub, ev.ip)
               /\ pc' = [pc EXCEPT !["watch"] = "updCreate"]
               /\ UNCHANGED <<werr, evDup, ev, idx, arg, sn>>
          ELSE Abort
  /\ Acts("watch")
  /\ UNCHANGED <<env, allocMap, result, releases, stranded, released, subrange,
                 nodeVars, chan, emitted, sig, stopSent, sigTaken>>

\* lines 196-200: CreateSubnet of the record with the new IP.
WatchNodesUpdateCreate ==
  /\ role = "master"
  /\ pc["watch"] = "updCreate"
  /\ \E ok \in Outcomes :
       /\ CreateSubnet(ev.name, sub, ok)
       /\ Return("watch", ~Created(ev.name, ok))
       /\ stranded' = IF Created(ev.name, ok) THEN stranded ELSE sub.cidr
  /\ Acts("watch")
  /\ UNCHANGED <<env, allocMap, result, releases, subrange,
                 nodeVars, chan, emitted, sig, stopSent, sigTaken>>

\* ------------------------------------------------------------ deleteNode
\* lines 98-102: GetSubnet(nodeName)
DeleteNodeLookup ==
  /\ role = "master"
  /\ pc["watch"] = "delLookup"
  /\ \/ /\ HasSubnet(ev.name)
        /\ sub' = SubnetOf(ev.name)
        /\ pc' = [pc EXCEPT !["watch"] = "delRelease"]
        /\ UNCHANGED <<werr, evDup, ev, idx, arg, sn>>
     \/ /\ reliable => ~HasSubnet(ev.name)
        /\ Return("watch", TRUE)
  /\ Acts("watch")
  /\ UNCHANGED <<env, subnets, allocMap, result, releases, stranded, released,
                 subrange, nodeVars, chan, emitted, sig, stopSent, sigTaken>>

\* deleteNode without its ReleaseNetwork call.
DeleteNodeReleaseSkipped ==
  /\ role = "master"
  /\ pc["watch"] = "delRelease"
  /\ IF ParseCIDR(sub.cidr) = None
     THEN /\ Return("watch", TRUE)
          /\ UNCHANGED <<allocMap, releases, released, stranded>>
     ELSE /\ UNCHANGED <<allocMap, releases, released, stranded>>
          /\ pc' = [pc EXCEPT !["watch"] = "delDelete"]
          /\ UNCHANGED <<werr, evDup, ev, sub, idx, arg, sn>>
  /\ Acts("watch")
  /\ UNCHANGED <<env, subnets, result, subrange, nodeVars, chan,
                 emitted, sig, stopSent, sigTaken>>

\* lines 103-108: ParseCIDR(sub.SubnetCIDR), then ReleaseNetwork(ipnet).
DeleteNodeRelease ==
  /\ role = "master"
  /\ pc["watch"] = "delRelease"
  /\ IF ParseCIDR(sub.cidr) = None
     THEN /\ Return("watch", TRUE)
          /\ UNCHANGED <<allocMap, releases, released, stranded>>
     ELSE /\ allocMap' = ReleaseNetwork(ParseCIDR(sub.cidr))
          /\ releases' = releases + 1
          /\ released' = [name |-> ev.name, cidr |-> sub.cidr,
                          full |-> FreeNets = {}]
          /\ stranded' = stranded
          /\ pc' = [pc EXCEPT !["watch"] = "delDelete"]
          /\ UNCHANGED <<werr, evDup, ev, sub, idx, arg, sn>>
  /\ Acts("watch")
  /\ UNCHANGED <<env, subnets, result, subrange, nodeVars, chan,
                 emitted, sig, stopSent, sigTaken>>

\* line 109: DeleteSubnet(nodeName)
DeleteNodeDelete ==
  /\ role = "master"
  /\ pc["watch"] = "delDelete"
  /\ \E ok \in Outcomes :
       /\ DeleteSubnet(ev.name, ok)
       /\ Return("watch", ~Deleted(ev.name, ok))
  /\ Acts("watch")
  /\ UNCHANGED <<env, allocMap, result, releases, stranded, released, subrange,
                 nodeVars, chan, emitted, sig, stopSent, sigTaken>>

\* ------------------------------------------------------------ node: bootstrap
\* This host's name (oc.hostName).
hostName == "n1"
\* A budget that is one too large.
retriesOneMore == 20 + 1
\* line 151: retries := 20
retries == 20

\* lines 157-165: one turn of initSelfSubnet's loop: the loop ends when the
\* counter reached retries; otherwise GetSubnet(oc.hostName) either returns
\* the record (break) or fails (warning, sleep, i++).
InitSelfSubnetLoop ==
  /\ role = "node"
  /\ pc["main"] = "initSelf"
  /\ IF i < retries
     THEN /\ lookups' = lookups + 1
          /\ \/ /\ HasSubnet(hostName)
                /\ sub' = SubnetOf(hostName)
                /\ err' = FALSE
                /\ i' = i
                /\ pc' = [pc EXCEPT !["main"] = "initCheck"]
             \/ /\ reliable => ~HasSubnet(hostName)
                /\ err' = TRUE
                /\ i' = i + 1
                /\ UNCHANGED <<sub, pc>>
     ELSE /\ pc' = [pc EXCEPT !["main"] = "initCheck"]
          /\ UNCHANGED <<lookups, sub, err, i>>
  /\ UNCHANGED <<env, subnets, allocMap, result, idx, arg, sn, ev, releases, stranded, released, werr, evDup,
                 subrange, localSubnet, flowReady, rules, watchVars>>

\* lines 166-170: the error after the loop, or oc.localSubnet = subnet.
InitSelfSubnetEnd ==
  /\ role = "node"
  /\ pc["main"] = "initCheck"
  /\ IF err
     THEN /\ pc' = [pc EXCEPT !["main"] = "failed"]
          /\ UNCHANGED <<localSubnet, sub>>
     ELSE /\ localSubnet' = sub
          /\ sub' = None
          /\ pc' = [pc EXCEPT !["main"] = "nodeGetCN"]
  /\ UNCHANGED <<env, subnets, allocMap, result, idx, arg, sn, ev, releases, stranded, released, werr, evDup,
                 subrange, i, err, lookups, flowReady, rules, watchVars>>

\* ------------------------------------------------------------ node: startup
\* line 119: GetClusterNetworkCIDR
NGetClusterNetworkCIDR ==
  /\ role = "node"
  /\ pc["main"] = "nodeGetCN"
  /\ \E ok \in Outcomes :
       pc' = [pc EXCEPT !["main"] = IF ok THEN "nodeGetSN" ELSE "failed"]
  /\ UNCHANGED <<env, masterVars, nodeVars, watchVars>>

\* line 124: GetServicesNetworkCIDR
NGetServicesNetworkCIDR ==
  /\ role = "node"
  /\ pc["main"] = "nodeGetSN"
  /\ \E ok \in Outcomes :
       pc' = [pc EXCEPT !["main"] = IF ok THEN "setup" ELSE "failed"]
  /\ UNCHANGED <<env, masterVars, nodeVars, watchVars>>

\* A startup that goes on after a failed flowController.Setup.
NSetupErrorIgnored ==
  /\ role = "node"
  /\ pc["main"] = "setup"
  /\ \E ok \in BOOLEAN :
       /\ flowReady' = ok
       /\ pc' = [pc EXCEPT !["main"] = "watchAndGet"]
  /\ UNCHANGED <<env, masterVars, i, err, lookups, localSubnet, rules,
                 watchVars>>

\* line 129: flowController.Setup
NSetup ==
  /\ role = "node"
  /\ pc["main"] = "setup"
  /\ \E ok \in BOOLEAN :
       /\ flowReady' = ok
       /\ pc' = [pc EXCEPT !["main"] =
                   IF ok THEN "watchAndGet" ELSE "failed"]
  /\ UNCHANGED <<env, masterVars, i, err, lookups, localSubnet, rules,
                 watchVars>>

\* The records of a set as the list GetSubnets returns (in name order).
NodeOrder == <<"n1", "n2">>
ListOf(S) ==
  LET F[k \in 0..Len(NodeOrder)] ==
        IF k = 0 THEN <<>>
        ELSE F[k - 1] \o
             (IF \E r \in S : r.name = NodeOrder[k]
              THEN <<CHOOSE r \in S : r.name = NodeOrder[k]>>
              ELSE <<>>)
  IN F[Len(NodeOrder)]

\* line 137: watchAndGetResource("HostSubnet", watchSubnets, getSubnets)
NWatchAndGetSubnets ==
  /\ role = "node"
  /\ pc["main"] = "watchAndGet"
  /\ \/ /\ result' = ListOf(subnets)
        /\ idx' = 1
        /\ pc' = [pc EXCEPT !["main"] = "nodeSweep", !["watch"] = "select"]
     \/ /\ ~reliable
        /\ pc' = [pc EXCEPT !["main"] = "failed"]
        /\ UNCHANGED <<result, idx>>
  /\ UNCHANGED <<env, subnets, allocMap, arg, sn, ev, sub, releases, stranded, released, werr, evDup,
                 subrange, nodeVars, watchVars>>

\* The flow controller's AddOFRules(peerIP, peerCIDR, localIP) and
\* DelOFRules(peerIP, localIP).
AddOFRules(ip, cidr) == rules' = rules \cup {[ip |-> ip, cidr |-> cidr]}
DelOFRules(ip) == rules' = {r \in rules : r.ip # ip}

\* lines 142-146: one turn of the sweep over the subnets of the snapshot.
NSweep ==
  /\ role = "node"
  /\ pc["main"] = "nodeSweep"
  /\ IF idx > Len(result)
     THEN /\ pc' = [pc EXCEPT !["main"] = "done"]
          /\ UNCHANGED <<idx, rules>>
     ELSE /\ AddOFRules(result[idx].ip, result[idx].cidr)
          /\ idx' = idx + 1
          /\ pc' = pc
  /\ UNCHANGED <<env, subnets, allocMap, result, arg, sn, ev, sub, releases, stranded, released, werr, evDup,
                 subrange, i, err, lookups, localSubnet, flowReady,
                 watchVars>>

\* ------------------------------------------------------------ watchSubnets
\* The master (another process) creates or deletes a Subnet record; the
\* registry watch, once subscribed and not stopped, offers the change on the
\* loop's event channel.
SubnetChanges ==
  /\ role = "node"
  /\ chan = None
  /\ emitted < MaxEvents
  /\ \E e \in [type : {"Added", "Deleted"}, name : Nodes, ip : ValidIPs,
               cidr : {CIDRString(n) : n \in PoolNets}] :
       /\ IF e.type = "Added"
          THEN /\ ~HasSubnet(e.name)
               /\ \A r \in subnets : ~Overlap(r.cidr, e.cidr)
               /\ subnets' = subnets \cup {Rec(e.name, e.ip, e.cidr)}
          ELSE /\ Rec(e.name, e.ip, e.cidr) \in subnets
               /\ subnets' = subnets \ {Rec(e.name, e.ip, e.cidr)}
       /\ chan' = IF pc["watch"] # "idle" /\ ~stopSent THEN e ELSE None
  /\ emitted' = emitted + 1
  /\ UNCHANGED <<env, pc, allocMap, result, idx, arg, sn, ev, sub, releases, stranded, released, werr, evDup,
                 subrange, nodeVars, sig, stopSent, sigTaken, afterSig>>

\* lines 220-228: the select takes a subnet event and handles it.
WatchSubnetsEvent ==
  /\ role = "node"
  /\ pc["watch"] = "select"
  /\ chan # None
  /\ IF chan.type = "Added"
     THEN AddOFRules(chan.ip, chan.cidr)
     ELSE DelOFRules(chan.ip)
  /\ chan' = None
  /\ Acts("watch")
  /\ UNCHANGED <<env, pc, masterVars, i, err, lookups, localSubnet,
                 flowReady, emitted, sig, stopSent, sigTaken>>

\* ------------------------------------------------------------ specification
\* The state at the call of subnetStartMaster / subnetStartNode, on a
\* registry that is reliable or not.
Start(r) ==
  /\ role \in {"master", "node"}
  /\ reliable = r
  /\ subnets \in InitRegistries
  /\ allocMap = {}
  /\ pc = [t \in Tasks |->
             IF t = "watch" THEN "idle"
             ELSE IF role = "master" THEN "getSubnets" ELSE "initSelf"]
  /\ result = <<>>
  /\ idx = 1
  /\ arg = [t \in Tasks |-> None]
  /\ sn = [t \in Tasks |-> None]
  /\ ev = None
  /\ sub = None
  /\ chan = None
  /\ emitted = 0
  /\ sig = FALSE
  /\ stopSent = FALSE
  /\ sigTaken = FALSE
  /\ afterSig = FALSE
  /\ releases = 0
  /\ released = None
  /\ stranded = None
  /\ werr = "none"
  /\ evDup = FALSE
  /\ subrange = {}
  /\ i = 0
  /\ err = FALSE
  /\ lookups = 0
  /\ localSubnet = None
  /\ flowReady = FALSE
  /\ rules = {}

\* The program on a registry whose calls can fail.
Init == Start(FALSE)

Next ==
  \/ MGetSubnets
  \/ MGetClusterNetworkCIDR
  \/ MGetHostSubnetLength
  \/ MNewSubnetAllocator
  \/ MWatchAndGetNodes
  \/ ServeExistingNodes
  \/ \E t \in Tasks : AddNodeScan(t)
  \/ \E t \in Tasks : AddNodeMark(t)
  \/ \E t \in Tasks : AddNodeCreate(t)
  \/ NodeEventArrives
  \/ Signal
  \/ WatchSignal
  \/ WatchStop
  \/ WatchNodesReceive
  \/ WatchNodesLookup
  \/ WatchNodesUpdateDelete
  \/ WatchNodesUpdateCreate
  \/ DeleteNodeLookup
  \/ DeleteNodeRelease
  \/ DeleteNodeDelete
  \/ InitSelfSubnetLoop
  \/ InitSelfSubnetEnd
  \/ NGetClusterNetworkCIDR
  \/ NGetServicesNetworkCIDR
  \/ NSetup
  \/ NWatchAndGetSubnets
  \/ NSweep
  \/ SubnetChanges
  \/ WatchSubnetsEvent

Spec == Init /\ [][Next]_vars

\* The program started on an empty registry, where the scheduler lets a loop
\* that took the shutdown signal go on to send its stop request and return.
EmptyInit == Init /\ subnets = {}
FairSpec == EmptyInit /\ [][Next]_vars /\ WF_vars(WatchStop)

\* The steps of the caller of subnetStartMaster and of the watchNodes
\* goroutine: a goroutine that can run is run.
MasterMain ==
  \/ MGetSubnets
  \/ MGetClusterNetworkCIDR
  \/ MGetHostSubnetLength
  \/ MNewSubnetAllocator
  \/ MWatchAndGetNodes
  \/ ServeExistingNodes
  \/ AddNodeScan("main")
  \/ AddNodeMark("main")
  \/ AddNodeCreate("main")
MasterWatch ==
  \/ WatchNodesReceive
  \/ WatchNodesLookup
  \/ AddNodeScan("watch")
  \/ AddNodeMark("watch")
  \/ AddNodeCreate("watch")
  \/ WatchNodesUpdateDelete
  \/ WatchNodesUpdateCreate
  \/ DeleteNodeLookup
  \/ DeleteNodeRelease
  \/ DeleteNodeDelete
  \/ (role = "master" /\ WatchSignal)
  \/ (role = "master" /\ WatchStop)
\* The program on a registry whose calls succeed, with both tasks run.
ReliableInit == Start(TRUE)
LiveSpec ==
  ReliableInit /\ [][Next]_vars /\ WF_vars(MasterMain) /\ WF_vars(MasterWatch)
\* The program started on an empty registry whose calls can fail, with the
\* watchNodes goroutine run.
LoopSpec == EmptyInit /\ [][Next]_vars /\ WF_vars(MasterWatch)

\* ------------------------------------------------------------ claims
\* A step taken by task t.
StepOf(t) == pc'[t] # pc[t]
\* The positions of a task inside addNode.
InAddNode(t) == pc[t] \in {"addGet", "addMark", "addCreate"}
\* The allocator exists once NewSubnetAllocator has returned it.
AllocatorBuilt ==
  pc["main"] \notin {"getSubnets", "getCN", "getHSL", "newAlloc"}

\* C1: in every reachable state of the master the live Subnet records hold
\* pairwise disjoint CIDRs.
NoOverlap ==
  role = "master" =>
    \A r1 \in subnets : \A r2 \in subnets :
      r1 # r2 => ~Overlap(r1.cidr, r2.cidr)

\* C2: a call of addNode with an empty or loopback IP changes neither the
\* allocator's set of allocated networks nor the registry's records: no step
\* of such a call does.
InvalidIPRejected ==
  [][\A t \in Tasks :
       (InAddNode(t) /\ StepOf(t) /\ arg[t].ip \in {"", "127.0.0.1"})
         => (allocMap' = allocMap /\ subnets' = subnets)]_vars

\* C3: at most one live record per node name, and the handling of an Added
\* event whose node had, when the event was taken, a record with the event's
\* IP changes neither the registry nor the allocator.
SingleAssignment ==
  /\ [](\A r1 \in subnets : \A r2 \in subnets :
          r1.name = r2.name => r1 = r2)
  /\ [][(evDup /\ StepOf("watch"))
          => (allocMap' = allocMap /\ subnets' = subnets)]_vars

\* C4: whenever the master's watch loop is between two events (and the
\* allocator has been built), the CIDR of every live record is marked
\* allocated in the allocator.
AllocatorMirrorsRegistry ==
  (role = "master" /\ AllocatorBuilt /\ pc["main"] # "failed"
     /\ pc["watch"] \in {"select", "stopping", "returned"})
    => \A r \in subnets : r.cidr \in allocMap

\* C5: the sweep and the watch loop are never both inside GetNetwork, and
\* never both between the lookup and the allocation for the same node.
SingleWriter ==
  role = "master" =>
    /\ ~(pc["main"] = "addMark" /\ pc["watch"] = "addMark")
    /\ ~(/\ pc["main"] \in {"addGet", "addMark"}
         /\ pc["watch"] \in {"addGet", "addMark"}
         /\ arg["main"].name = arg["watch"].name)

\* C6: in the handling of a Deleted event for a node whose record holds CIDR
\* C, ReleaseNetwork leaves C free in the allocator; and when the handler ends
\* without error the registry holds no record of the node and ReleaseNetwork
\* was called exactly once.
ReleaseCorrect ==
  /\ [][(pc["watch"] = "delRelease" /\ pc'["watch"] = "delDelete")
          => (/\ sub = SubnetOf(ev.name)
              /\ sub.cidr \notin allocMap'
              /\ ParseCIDR(sub.cidr) \in FreeNets')]_vars
  /\ [][(pc["watch"] = "delDelete" /\ StepOf("watch") /\ werr' = "ok")
          => (/\ \A r \in subnets' : r.name # ev.name
              /\ releases' = 1)]_vars
  /\ [](releases <= 1)
\* C6's case: a Deleted event was handled without error and the released
\* network is free.
ReleaseCorrectWitness ==
  /\ role = "master"
  /\ pc["watch"] = "select"
  /\ werr = "ok"
  /\ releases = 1
  /\ FreeNets # {}

\* C7: the IP-change branch of an Added event deletes and recreates the
\* node's record with the event's IP and the CIDR the record had; it leaves
\* the allocator alone; and no step changes the CIDR of a record that exists
\* before and after it.
IPChangeKeepsCIDR ==
  /\ [](pc["watch"] = "updDelete"
          => (/\ sub \in subnets
              /\ sub.name = ev.name
              /\ sub.ip # ev.ip))
  /\ [][(pc["watch"] = "updDelete" /\ pc'["watch"] = "updCreate")
          => sub' = Rec(ev.name, ev.ip, sub.cidr)]_vars
  /\ [][(pc["watch"] = "updCreate" /\ StepOf("watch") /\ werr' = "ok")
          => (/\ Rec(ev.name, ev.ip, sub.cidr) \in subnets'
              /\ \A r \in subnets' : r.name = ev.name => r.cidr = sub.cidr)]_vars
  /\ [][(pc["watch"] \in {"updDelete", "updCreate"} /\ StepOf("watch"))
          => allocMap' = allocMap]_vars
  /\ [][\A r1 \in subnets : \A r2 \in subnets' :
          r1.name = r2.name => r1.cidr = r2.cidr]_vars
\* C7's case: an IP change went through: the node's record holds the IP of
\* the event just handled, which is not the IP it had at startup.
IPChangeWitness ==
  /\ role = "master"
  /\ pc["watch"] = "select"
  /\ werr = "ok"
  /\ subrange = {CIDRString(Network(0))}
  /\ subnets = {Rec("n1", "2.2.2.2", CIDRString(Network(0)))}
  /\ emitted = 1

\* C8: the allocator is seeded with the CIDR of every pre-existing record
\* before the sweep starts, the sweep calls addNode only for a listed node
\* that has no record, and a record the sweep creates overlaps no other live
\* record.
SeedIdempotence ==
  /\ [](role = "master" /\ pc["main"] = "watchAndGet"
          => \A r \in subnets : r.cidr \in allocMap)
  /\ [][(pc["main"] = "sweep" /\ pc'["main"] = "addGet")
          => ~HasSubnet(result[idx].name)]_vars
  /\ [][(pc["main"] = "addCreate" /\ StepOf("main"))
          => \A r1 \in subnets' : \A r2 \in subnets' :
               r1 # r2 => ~Overlap(r1.cidr, r2.cidr)]_vars

\* C9: initSelfSubnet makes at most 20 lookups; it fails only after exactly
\* 20 failed lookups, with localSubnet unset; when lookup k is the first to
\* succeed it makes exactly k lookups and sets localSubnet to the record.
BootstrapBudget ==
  role = "node" =>
    /\ lookups <= 20
    /\ lookups \in {i, i + 1}
    /\ (pc["main"] = "initSelf" => (lookups = i /\ localSubnet = None))
    /\ (pc["main"] = "initCheck" /\ err => lookups = 20)
    /\ (pc["main"] = "initCheck" /\ ~err
          => (lookups = i + 1 /\ sub.name = hostName))
    /\ (pc["main"] = "failed" /\ err => (lookups = 20 /\ localSubnet = None))
    /\ (pc["main"] \notin {"initSelf", "initCheck"} /\ ~err
          => (/\ lookups = i + 1
              /\ lookups \in 1..20
              /\ localSubnet # None
              /\ localSubnet.name = hostName))
\* C9's case: the budget is exhausted and bootstrap has failed.
BootstrapExhausted ==
  /\ role = "node"
  /\ pc["main"] = "failed"
  /\ err
  /\ lookups = 20

\* C10: a watch loop that took the shutdown signal handles nothing more, and
\* it sends the stop request and returns.
Shutdown ==
  /\ [](~afterSig)
  /\ [](sigTaken => pc["watch"] \in {"stopping", "returned"})
  /\ [](pc["watch"] = "returned" => stopSent)
  /\ (sigTaken ~> (pc["watch"] = "returned" /\ stopSent))
\* C10's case: the loop has returned while an event was still offered on
\* its channel.
ShutdownWitness ==
  /\ pc["watch"] = "returned"
  /\ stopSent
  /\ chan # None

\* The positions of subnetStartMaster before the allocator exists, and of
\* subnetStartNode up to flowController.Setup.
MasterStartup == {"getSubnets", "getCN", "getHSL", "newAlloc"}
NodeStartup == {"initSelf", "initCheck", "nodeGetCN", "nodeGetSN", "setup"}

\* C11: a startup that fails before the allocator exists (master) or up to
\* flowController.Setup (node) returns the error with the watch not started,
\* no network allocated, the registry as it was and no forwarding rule
\* touched; and nothing happens after that.
StartupAborts ==
  /\ [](pc["main"] \in MasterStartup \cup NodeStartup
          => (pc["watch"] = "idle" /\ allocMap = {} /\ rules = {}))
  /\ [][(pc["main"] \in MasterStartup \cup NodeStartup
           /\ pc'["main"] = "failed")
          => (/\ pc'["watch"] = "idle"
              /\ allocMap' = {}
              /\ subnets' = subnets
              /\ rules' = {})]_vars
  /\ [][(role = "master" /\ pc["main"] \in MasterStartup)
          => subnets' = subnets]_vars
  /\ [][(pc["main"] = "failed" /\ pc["watch"] = "idle")
          => (/\ pc' = pc
              /\ allocMap' = allocMap
              /\ rules' = rules
              /\ (role = "master" => subnets' = subnets))]_vars
\* C11's case: allocator construction failed on a registry holding a CIDR
\* outside the cluster network.
StartupAbortsWitness ==
  /\ role = "master"
  /\ pc["main"] = "failed"
  /\ pc["watch"] = "idle"
  /\ subrange # {}
  /\ ~SeedOK(subrange)
  /\ allocMap = {}

\* A call of AddOFRules or DelOFRules: a turn of the sweep over the
\* snapshot, or the watchSubnets loop handling an event.
RuleCall ==
  /\ role = "node"
  /\ \/ (pc["main"] = "nodeSweep" /\ idx' # idx)
     \/ (pc["watch"] = "select" /\ chan # None /\ chan' = None)

\* C12: on the node, Setup is called only after bootstrap has set
\* oc.localSubnet, the subnet watch runs only after Setup has succeeded, no
\* AddOFRules or DelOFRules call is made before Setup has succeeded, and the
\* watch loop is not running while bootstrap is.
NodeStartupOrder ==
  /\ [](role = "node" =>
          /\ (pc["main"] \in {"nodeGetCN", "nodeGetSN", "setup"}
                => (~err /\ localSubnet # None /\ localSubnet.name = hostName))
          /\ (flowReady => (~err /\ localSubnet # None))
          /\ (pc["main"] \in {"watchAndGet", "nodeSweep", "done"} => flowReady)
          /\ (pc["watch"] # "idle" => flowReady)
          /\ (rules # {} => flowReady)
          /\ (pc["main"] \in {"initSelf", "initCheck"}
                => (pc["watch"] = "idle" /\ ~flowReady)))
  /\ [][RuleCall => flowReady]_vars
  /\ [][(role = "node" /\ pc["watch"] = "idle" /\ pc'["watch"] # "idle")
          => (pc["main"] = "watchAndGet" /\ flowReady)]_vars
\* C12's case: the node got through bootstrap and Setup and the watchSubnets
\* loop has installed a rule the sweep did not.
NodeStartupOrderWitness ==
  /\ role = "node"
  /\ flowReady
  /\ pc["main"] = "done"
  /\ pc["watch"] = "select"
  /\ \E r \in rules : \A k \in 1..Len(result) : result[k].ip # r.ip

\* Node n is in the snapshot of GetNodes with a valid IP.
InSnapshot(n) ==
  \E k \in 1..Len(result) : result[k].name = n /\ ~InvalidIP(result[k].ip)
\* An Added event with a valid IP announces node n.
Announced(n) ==
  /\ chan # None
  /\ chan.type = "Added"
  /\ chan.name = n
  /\ ~InvalidIP(chan.ip)
\* What takes node n out of the claim: it is deleted, the pool is exhausted
\* or the process is told to shut down.
Excused(n) ==
  \/ (chan # None /\ chan.type = "Deleted" /\ chan.name = n)
  \/ FreeNets = {}
  \/ sig
  \/ sigTaken
\* Task t takes a network for a node that has a record, or for which task o
\* has already taken one.
SecondAllocation(t, o) ==
  /\ pc[t] = "addMark"
  /\ StepOf(t)
  /\ \/ HasSubnet(arg[t].name)
     \/ (pc[o] = "addCreate" /\ arg[o].name = arg[t].name)

\* C13: with a reliable registry, a node with a valid IP that is in the
\* snapshot or is announced by an Added event gets a Subnet record, unless it
\* is deleted, the pool is exhausted or the master is shut down; and while the
\* watch loop handles an event that repeats a snapshot entry no network is
\* taken for a node that already has one.
NoNodeMissed ==
  /\ \A n \in Nodes :
       (reliable /\ role = "master" /\ (InSnapshot(n) \/ Announced(n)))
         ~> (HasSubnet(n) \/ Excused(n))
  /\ [][(/\ reliable
          /\ role = "master"
          /\ InAddNode("watch")
          /\ \E k \in 1..Len(result) : result[k] = arg["watch"])
          => ~(SecondAllocation("watch", "main")
                 \/ SecondAllocation("main", "watch"))]_vars

\* The rules a node holds when it has one for every live record and no other.
RulesOf(S) == {[ip |-> r.ip, cidr |-> r.cidr] : r \in S}

\* C14: on a node whose sweep has finished and whose watchSubnets loop has
\* handled every event issued so far, the rules are those of the live Subnet
\* records; and the sweep installs no rule for a record of the snapshot whose
\* Deleted event the loop has already handled.
RulesMirrorSubnets ==
  /\ [](role = "node" /\ pc["main"] = "done" /\ pc["watch"] = "select"
          /\ chan = None
          => rules = RulesOf(subnets))
  /\ [][(role = "node" /\ pc["main"] = "nodeSweep" /\ idx' # idx
          /\ pc["watch"] = "select" /\ chan = None)
          => result[idx] \in subnets]_vars

\* Task t returns from addNode at the check of the IP (lines 81-83).
InvalidIPReturn(t) ==
  /\ role = "master"
  /\ pc[t] = "addMark"
  /\ InvalidIP(arg[t].ip)
  /\ StepOf(t)

\* C15: a call of addNode with an empty or loopback IP writes no record; when
\* it returns, the sweep goes on with the next listed node and the watch
\* loop goes back to its select; and the addNode of a later Added event that
\* ends without error has written the node's record with the event's IP.
InvalidNodeSkipped ==
  /\ [][\A t \in Tasks :
          (InAddNode(t) /\ InvalidIP(arg[t].ip) /\ StepOf(t))
            => subnets' = subnets]_vars
  /\ [][InvalidIPReturn("main")
          => (pc'["main"] = "sweep" /\ idx' = idx + 1)]_vars
  /\ [][InvalidIPReturn("watch") => pc'["watch"] = "select"]_vars
  /\ [][(pc["watch"] = "addCreate" /\ StepOf("watch") /\ werr' = "ok")
          => (\E r \in subnets' :
                r.name = arg["watch"].name /\ r.ip = arg["watch"].ip)]_vars

\* How far the handling of an event has got: a handler only moves forward.
Rank(p) ==
  CASE p \in {"lookup", "delLookup"} -> 1
    [] p \in {"addGet", "updDelete", "delRelease"} -> 2
    [] p \in {"addMark", "updCreate", "delDelete"} -> 3
    [] p = "addCreate" -> 4
    [] OTHER -> 0
\* The watchNodes loop is handling an event.
Handling == role = "master" /\ Rank(pc["watch"]) > 0

\* C16: whatever fails while watchNodes handles an event, the handler ends
\* at the loop's select without having repeated a step and without putting
\* the event back; the loop leaves its select for good only by taking the
\* shutdown signal; and an event offered to a loop that is not told to shut
\* down is taken.
LoopSurvivesErrors ==
  /\ [][(Handling /\ StepOf("watch"))
          => (/\ \/ pc'["watch"] = "select"
                 \/ Rank(pc'["watch"]) > Rank(pc["watch"])
              /\ chan' = chan
              /\ emitted' = emitted)]_vars
  /\ [][(Handling /\ werr' \in {"err", "abort"})
          => pc'["watch"] = "select"]_vars
  /\ [](role = "master" /\ pc["watch"] \in {"stopping", "returned"}
          => sigTaken)
  /\ [][(role = "master" /\ pc["watch"] = "select"
           /\ pc'["watch"] \in {"stopping", "returned"})
          => (sig /\ ~sig')]_vars
  /\ ((role = "master" /\ chan # None)
        ~> (chan = None \/ sig \/ sigTaken))
\* C16's case: on an empty registry and an empty snapshot the handler of the
\* first event took a network and ended with an error, and the loop has
\* handled the second event, which created the only record.
LoopSurvivesErrorsWitness ==
  /\ role = "master"
  /\ subrange = {}
  /\ result = <<>>
  /\ Cardinality(allocMap) = 2
  /\ Cardinality(subnets) = 1
  /\ pc["watch"] = "select"
  /\ werr = "ok"
  /\ emitted = 2
  /\ chan = None
  /\ ~sigTaken

\* The watch loop's addNode writes the record of a node after deleteNode has
\* released, from an exhausted pool, the CIDR of another node.
AddedAfterRelease ==
  /\ role = "master"
  /\ pc["watch"] = "addCreate"
  /\ StepOf("watch")
  /\ released # None
  /\ released.full
  /\ released.name # arg["watch"].name

\* C17: addNode on an exhausted pool returns an error and changes neither
\* the registry nor the allocator; once deleteNode has released the CIDR of
\* another node from an exhausted pool, the addNode of a following Added
\* event finds a free network whenever one is free, and when it ends without
\* error it has written the node's record, which overlaps no other live
\* record.
ExhaustionRecoverable ==
  /\ [][\A t \in Tasks :
          (role = "master" /\ pc[t] = "addGet" /\ FreeNets = {} /\ StepOf(t))
            => (/\ ~InAddNode(t)'
                /\ (t = "main" => pc'[t] = "failed")
                /\ (t = "watch" => werr' = "err")
                /\ subnets' = subnets
                /\ allocMap' = allocMap)]_vars
  /\ [][(role = "master" /\ pc["watch"] = "addGet" /\ FreeNets # {}
           /\ StepOf("watch"))
          => pc'["watch"] = "addMark"]_vars
  /\ [][(AddedAfterRelease /\ werr' = "ok")
          => (\E r \in subnets' :
                /\ r = Rec(arg["watch"].name, arg["watch"].ip,
                           CIDRString(sn["watch"]))
                /\ \A r2 \in subnets' \ {r} : ~Overlap(r.cidr, r2.cidr))]_vars

\* The watchNodes loop ends deleteNode before its ReleaseNetwork call: the
\* lookup failed, or the record's SubnetCIDR is no CIDR.
DeleteNodeFails ==
  /\ role = "master"
  /\ StepOf("watch")
  /\ \/ (pc["watch"] = "delLookup" /\ pc'["watch"] # "delRelease")
     \/ (pc["watch"] = "delRelease" /\ ParseCIDR(sub.cidr) = None)

\* C18: a deleteNode whose lookup fails or whose record holds no CIDR ends
\* with the error, without a ReleaseNetwork or DeleteSubnet call and with
\* the allocator and the registry as they were; deleteNode goes past its
\* lookup only with the record of the event's node; and the handling of a
\* second Deleted event for a node, no record of which was written since the
\* first, calls ReleaseNetwork no more.
FailedDeleteReleasesNothing ==
  /\ [][DeleteNodeFails
          => (/\ pc'["watch"] = "select"
              /\ werr' = "err"
              /\ releases' = 0
              /\ allocMap' = allocMap
              /\ subnets' = subnets)]_vars
  /\ [](role = "master" /\ pc["watch"] = "delRelease"
          => (sub \in subnets /\ sub.name = ev.name))
  /\ [][(role = "master" /\ pc["watch"] = "delLookup"
           /\ ~HasSubnet(ev.name) /\ StepOf("watch"))
          => pc'["watch"] = "select"]_vars
  /\ [][(role = "master" /\ releases' > releases)
          => (released = None \/ released.name # ev.name)]_vars

\* The watchNodes loop's DeleteSubnet call of an IP change leaves the
\* registry with the node's record: the call failed.
UpdateDeleteFails ==
  /\ role = "master"
  /\ pc["watch"] = "updDelete"
  /\ StepOf("watch")
  /\ \E r \in subnets' : r.name = ev.name

\* C19: when the DeleteSubnet call of an IP change fails, the loop goes back
\* to its select without a CreateSubnet call, the record keeps its IP and
\* its CIDR, the registry and the allocator are as they were; and an Added
\* event whose lookup returns a record with another IP takes the IP-change
\* branch with that record, so a later event with the new IP tries again.
FailedDeleteAborts ==
  /\ [][UpdateDeleteFails
          => (/\ pc'["watch"] = "select"
              /\ werr' = "abort"
              /\ subnets' = subnets
              /\ allocMap' = allocMap
              /\ sub \in subnets'
              /\ sub.ip # ev.ip)]_vars
  /\ [](werr = "abort" => pc["watch"] # "updCreate")
  /\ [][(role = "master" /\ pc["watch"] = "lookup" /\ StepOf("watch")
           /\ pc'["watch"] # "addGet"
           /\ \E r \in subnets : r.name = ev.name /\ r.ip # ev.ip)
          => (/\ pc'["watch"] = "updDelete"
              /\ sub' \in subnets
              /\ sub'.name = ev.name
              /\ allocMap' = allocMap
              /\ subnets' = subnets)]_vars
\* C19's case: the IP change of n1 to 2.2.2.2 was given up at its failed
\* DeleteSubnet, and the next Added event with the new IP is waiting.
FailedDeleteAbortsWitness ==
  /\ role = "master"
  /\ werr = "abort"
  /\ pc["watch"] = "select"
  /\ Rec("n1", "1.1.1.1", CIDRString(Network(0))) \in subnets
  /\ CIDRString(Network(0)) \in allocMap
  /\ chan # None
  /\ chan.type = "Added"
  /\ chan.name = "n1"
  /\ chan.ip = "2.2.2.2"

\* The CreateSubnet call of an IP change (line 196) fails; DeleteSubnet has
\* succeeded before it, or the loop would not be here (lines 190-194).
UpdateCreateFails ==
  /\ role = "master"
  /\ pc["watch"] = "updCreate"
  /\ StepOf("watch")
  /\ werr' = "err"

\* C20: when the CreateSubnet call of an IP change fails after its
\* DeleteSubnet succeeded, the registry has no record for the node and the
\* allocator still holds the old CIDR; from then on that CIDR stays
\* allocated, no record written later carries it, and a network a later
\* addNode picks is another one.
RecreateStrandsCIDR ==
  /\ [][UpdateCreateFails
          => (/\ ~\E r \in subnets' : r.name = ev.name
              /\ sub.cidr \in allocMap'
              /\ stranded' = sub.cidr)]_vars
  /\ [](stranded # None => stranded \in allocMap)
  /\ [][stranded # None
          => \A r \in subnets' \ subnets : r.cidr # stranded]_vars
  /\ [][\A t \in {"main", "watch"} :
          (stranded # None /\ pc[t] = "addGet" /\ pc'[t] = "addMark")
            => CIDRString(sn'[t]) # stranded]_vars

====
